---- MODULE Spec2Model ----
(***************************************************************************)
(* Model of logging/registry.go: the LoggerRegistry (store, config, lock), *)
(* its construction, lookup, registration and reload, run by concurrent    *)
(* callers.  Go strings are sequences of one-character strings so that     *)
(* strings.ToLower, strings.Split, strings.Join and sort.Strings are       *)
(* computed rather than assumed.                                           *)
(***************************************************************************)
EXTENDS Integers, Sequences, FiniteSets, TLC

\* ------------------------------------------------------------------ bounds
NumProcs == 2
MaxOps == 3

\* ----------------------------------------------------------------- strings
\* The characters used by the inputs, in byte order (sort.Strings compares
\* bytes): '.' < upper case < lower case.
Alphabet == <<".", "A", "B", "R", "a", "b", "c", "d", "e", "f", "g", "i",
              "l", "m", "n", "o", "r", "t", "u", "v", "x">>

Ord(ch) == CHOOSE i \in DOMAIN Alphabet : Alphabet[i] = ch

LowerChar(ch) == CASE ch = "A" -> "a"
                   [] ch = "B" -> "b"
                   [] ch = "R" -> "r"
                   [] OTHER -> ch

\* faulty variant: the name is used as it is written
ToLowerId(s) == s

ToLower(s) == [i \in DOMAIN s |-> LowerChar(s[i])]

RECURSIVE Split(_)
Split(s) ==
  IF \A i \in DOMAIN s : s[i] # "." THEN <<s>>
  ELSE LET i == CHOOSE j \in DOMAIN s :
                   s[j] = "." /\ \A h \in 1..(j - 1) : s[h] # "."
       IN <<SubSeq(s, 1, i - 1)>> \o Split(SubSeq(s, i + 1, Len(s)))

RECURSIVE Join(_)
Join(parts) ==
  IF Len(parts) = 0 THEN <<>>
  ELSE IF Len(parts) = 1 THEN parts[1]
  ELSE parts[1] \o <<".">> \o Join(Tail(parts))

\* byte-wise lexicographic order of Go strings
RECURSIVE StrLess(_, _)
StrLess(s, t) ==
  IF Len(t) = 0 THEN FALSE
  ELSE IF Len(s) = 0 THEN TRUE
  ELSE IF s[1] # t[1] THEN Ord(s[1]) < Ord(t[1])
  ELSE StrLess(Tail(s), Tail(t))

\* faulty variant: the keys come in descending order
RECURSIVE SortStringsDesc(_)
SortStringsDesc(S) ==
  IF S = {} THEN <<>>
  ELSE LET m == CHOOSE x \in S : \A y \in S \ {x} : StrLess(y, x)
       IN <<m>> \o SortStringsDesc(S \ {m})

\* sort.Strings applied to the elements of a set
RECURSIVE SortStrings(_)
SortStrings(S) ==
  IF S = {} THEN <<>>
  ELSE LET m == CHOOSE x \in S : \A y \in S \ {x} : StrLess(x, y)
       IN <<m>> \o SortStrings(S \ {m})

\* string literals
S_a == <<"a">>
S_b == <<"b">>
S_c == <<"c">>
S_d == <<"d">>
S_x == <<"x">>
S_A == <<"A">>
S_level == <<"l", "e", "v", "e", "l">>
S_name == <<"n", "a", "m", "e">>
S_logging == <<"l", "o", "g", "g", "i", "n", "g">>
S_root == <<"r", "o", "o", "t">>
S_Root == <<"R", "o", "o", "t">>
S_debug == <<"d", "e", "b", "u", "g">>
S_info == <<"i", "n", "f", "o">>
Dot(s, t) == s \o <<".">> \o t

\* ------------------------------------------------------ configuration view
\* A *viper.Viper is a record: `data` is the set of leaf settings of the
\* tree it reads (each leaf the sequence of map keys leading to it, and its
\* value), `defaults` the settings added with SetDefault, `path` the place
\* of the view below the application configuration, `nil` the nil pointer.
NilView == [nil |-> TRUE, path |-> <<>>, data |-> {}, defaults |-> {}]

MkView(path, data) == [nil |-> FALSE, path |-> path, data |-> data, defaults |-> {}]

\* a scalar setting, and an empty section (a map with no entries)
Leaf(keys, val) == [keys |-> keys, val |-> val, map |-> FALSE]

EmptySection(keys) == [keys |-> keys, val |-> <<>>, map |-> TRUE]

\* the leaves of a view, defaults included
Settings(v) == v.data \cup v.defaults

\* the leaves of S that pass through the node addressed by the dotted key k,
\* paired with the number of map keys that spell k
Reaching(S, k) ==
  UNION {{<<lf, n>> : n \in {m \in 1..Len(lf.keys) :
                                Join(SubSeq(lf.keys, 1, m)) = k}} : lf \in S}

IsSet(v, k) == Reaching(Settings(v), ToLower(k)) # {}

InConfig(v, k) == \E lf \in v.data : lf.keys[1] = ToLower(k)

AllKeys(v) == {Join(lf.keys) : lf \in {x \in Settings(v) : ~x.map}}

GetString(v, k) ==
  LET hit == {x \in Reaching(Settings(v), ToLower(k)) :
                   x[2] = Len(x[1].keys) /\ ~x[1].map}
  IN IF hit = {} THEN <<>> ELSE (CHOOSE x \in hit : TRUE)[1].val

SubPath(v, k) == IF v.path = <<>> THEN k ELSE Dot(v.path, k)

Sub(v, k) ==
  LET lk == ToLower(k)
      at == Reaching(Settings(v), lk)
      below == {x \in at : x[2] < Len(x[1].keys)}
  IN IF \A x \in at : x[2] = Len(x[1].keys) /\ ~x[1].map THEN NilView
     ELSE MkView(SubPath(v, lk),
                 {[x[1] EXCEPT !.keys = SubSeq(@, x[2] + 1, Len(@))] : x \in below})

\* ------------------------------------------------------------------ inputs
Procs == 1..NumProcs

\* loggers built by callers and handed to Register; 0 is the nil Logger
ExtLoggers == {1}

RootNames == {S_root, S_Root}

\* baseline context fields handed to NewRegistry
Context == [f \in {"app"} |-> S_x]

\* application configurations (the data of the *viper.Viper given to
\* NewRegistry, and what the backing source may later be rewritten to)
CfgEmpty == {}

CfgEmptyLogging == {EmptySection(<<S_logging>>)}

CfgModules == {Leaf(<<S_logging, S_a, S_level>>, S_debug),
               Leaf(<<S_logging, S_a, S_b, S_level>>, S_info),
               Leaf(<<S_logging, S_c, S_name>>, S_x)}

CfgDotted == {Leaf(<<S_a, S_level>>, S_debug),
              Leaf(<<Dot(S_a, Dot(S_b, S_c)), S_level>>, S_info)}

CfgFlat == {Leaf(<<S_level>>, S_debug)}

AppConfigs == {CfgEmpty, CfgEmptyLogging, CfgModules, CfgDotted, CfgFlat}

\* what the backing source is rewritten to
Rewrites == {CfgModules}

RegPaths == {Dot(S_A, S_b), Dot(Dot(S_a, Dot(S_b, S_c)), S_d)}

LookupNames == {Dot(S_a, <<"B">>)}

\* ------------------------------------------------------------------- state
VARIABLES
  phase,      \* "new" before NewRegistry, then "ready", or "failed" if it panicked
  RootName,   \* the package variable
  cfg,        \* the application's *viper.Viper
  config,     \* r.config
  aliased,    \* r.config is the pointer cfg itself (no "logging" section)
  store,      \* r.store: key -> logger (0 is nil)
  lock,       \* r.lock: 0 when free, else the caller holding it
  loggers,    \* heap of Logger objects: id -> [name, fields, config, reg]
  maps,       \* heap of logrus.Fields maps: id -> fields (0 is the caller's context)
  pc, op, arg, argL, res, ret,   \* per caller: position, operation, arguments, results
  keys, configs, idx,            \* per caller: the locals of Reload
  calls,      \* per caller: the Configure invocations of its latest Reload
  regs,       \* history: the latest Register write of each path, as
              \* <<path, logger, logger of the write before it on that path>>,
              \* in the order the writes were made
  nops        \* operations started

vars == <<phase, RootName, cfg, config, aliased, store, lock, loggers, maps,
          pc, op, arg, argL, res, ret, keys, configs, idx, calls, regs, nops>>

regVars == <<phase, cfg, config, aliased, store, loggers, maps>>
locVars == <<keys, configs, idx, calls, regs>>

EmptyMap == [x \in {} |-> 0]

NoResult == <<0, FALSE>>

\* ------------------------------------------------------------ construction
\* spec section 4.5: fill absent settings with process defaults, never
\* overwriting a setting that is present; a nil view is left alone
addLoggingDefaults(v) ==
  IF v.nil \/ IsSet(v, S_level) THEN v
  ELSE [v EXCEPT !.defaults = @ \cup {Leaf(<<S_level>>, S_info)}]

newNamedLogger(name, fields, v) ==
  [name |-> name, fields |-> fields, config |-> v, reg |-> TRUE]

\* a logger made by a caller, outside NewRegistry
ExtLogger == [name |-> <<>>, fields |-> 0, config |-> NilView, reg |-> FALSE]

\* the *viper.Viper NewRegistry works on (lines 28-31)
Narrow(c) == IF InConfig(c, S_logging) THEN Sub(c, S_logging) ELSE c

\* the keys the construction loop ranges over (line 33)
ModuleKeys(c) == AllKeys(c)

\* line 48-51: the view of module k
ModuleView(c, k) == IF InConfig(c, k) THEN Sub(c, k) ELSE c

\* the value of c after the loop: addLoggingDefaults(v) writes to c itself
\* whenever some module fell back to v = c
AfterLoop(c) ==
  IF \E k \in ModuleKeys(c) : ~InConfig(c, k) THEN addLoggingDefaults(c) ELSE c

\* line 54-57
ModuleField(v, k) == IF IsSet(v, S_name) THEN GetString(v, S_name) ELSE k

\* lines 43-46 and 64-67: a fresh map holding a copy of the context
CopyContext(context, module) ==
  [f \in DOMAIN context \cup {"module"} |->
      IF f = "module" THEN module ELSE context[f]]

\* faulty variant: the logger is given the caller's map itself
SharedMap(i) == 0

\* lines 43 and 64: make(logrus.Fields, ...) allocates map i of the heap
FreshMap(i) == i

\* line 63
NoKeys(ks) == ks = {}

\* faulty variant: the default name is hard-coded
RootKeyFixed(n) == S_root

\* line 72: the key under which the synthesized root logger is stored
RootKey(n) == n

NewRegistry ==
  /\ phase = "new"
  /\ LET c == Narrow(cfg)
         ks == IF c.nil THEN {} ELSE ModuleKeys(c)
         sorted == SortStrings(ks)
         base == Cardinality(ExtLoggers)
         id(k) == base + (CHOOSE i \in DOMAIN sorted : sorted[i] = k)
         view(k) == addLoggingDefaults(ModuleView(c, k))
     IN IF c.nil \/ \E k \in ks : ModuleView(c, k).nil
        THEN \* AllKeys or IsSet on a nil *viper.Viper: nil dereference
             /\ phase' = "failed"
             /\ UNCHANGED <<config, aliased, store, loggers, maps>>
        ELSE /\ phase' = "ready"
             /\ aliased' = ~InConfig(cfg, S_logging)
             /\ config' = AfterLoop(c)
             /\ IF NoKeys(ks)
                THEN /\ store' = [k \in {RootKey(RootName)} |-> base + 1]
                     /\ loggers' = loggers @@
                          [i \in {base + 1} |-> newNamedLogger(RootName, FreshMap(i), c)]
                     /\ maps' = maps @@
                          [i \in {base + 1} |-> CopyContext(maps[0], RootName)]
                ELSE /\ store' = [k \in ks |-> id(k)]
                     /\ loggers' = loggers @@
                          [i \in {id(k) : k \in ks} |->
                             LET k == sorted[i - base]
                             IN newNamedLogger(k, FreshMap(i),
                                  IF InConfig(c, k) THEN view(k) ELSE AfterLoop(c))]
                     /\ maps' = maps @@
                          [i \in {id(k) : k \in ks} |->
                             LET k == sorted[i - base]
                             IN CopyContext(maps[0], ModuleField(view(k), k))]
  /\ cfg' = IF phase' = "ready" /\ aliased' THEN config' ELSE cfg
  /\ UNCHANGED <<RootName, lock, pc, op, arg, argL, res, ret, locVars, nops>>

\* --------------------------------------------------------------- the mutex
\* faulty variant: Lock does not wait
CanLockAlways(p) == TRUE

\* sync.Mutex.Lock blocks until the mutex is free
CanLock(p) == lock = 0

\* faulty variant: the call of Lock is missing
AcquireNoop(p) == CanLock(p) /\ lock' = lock

Acquire(p) == CanLock(p) /\ lock' = p

\* faulty variant: the call of Unlock is missing
ReleaseNever(p) == lock' = lock

\* sync.Mutex.Unlock frees the mutex, whoever locked it
Release(p) == lock' = 0

\* ------------------------------------------------------------ calls by users
Idle(p) == phase = "ready" /\ pc[p] = "idle" /\ nops < MaxOps

Begin(p, o, a, l, at) ==
  /\ Idle(p)
  /\ nops' = nops + 1
  /\ op' = [op EXCEPT ![p] = o]
  /\ arg' = [arg EXCEPT ![p] = a]
  /\ argL' = [argL EXCEPT ![p] = l]
  /\ pc' = [pc EXCEPT ![p] = at]
  /\ UNCHANGED <<regVars, RootName, lock, res, ret, locVars>>

CallGetOK(p) == \E n \in LookupNames : Begin(p, "GetOK", n, 0, "getok_lock")

\* Get(name): line 81 calls GetOK(name)
CallGet(p) == \E n \in LookupNames : Begin(p, "Get", n, 0, "getok_lock")

\* faulty variant: Root looks up the default name
CallRootFixed(p) == Begin(p, "Root", S_root, 0, "getok_lock")

\* Root(): line 105 reads RootName and calls Get
CallRoot(p) == Begin(p, "Root", RootName, 0, "getok_lock")

CallRegister(p) ==
  \E path \in RegPaths, l \in {0} \cup ExtLoggers :
     Begin(p, "Register", path, l, "reg_lock")

CallReload(p) == Begin(p, "Reload", <<>>, 0, "reload_lock")

\* ------------------------------------------------------------------- GetOK
\* faulty variant: found means the value read is not nil
LookupNonNil(m, k) ==
  IF k \in DOMAIN m /\ m[k] # 0 THEN <<m[k], TRUE>> ELSE NoResult

\* line 91: the comma-ok read of the map
Lookup(m, k) == IF k \in DOMAIN m THEN <<m[k], TRUE>> ELSE NoResult

\* what Get and Root return once GetOK has returned (lines 81-85, 105)
GetResult(r) == IF ~r[2] THEN 0 ELSE r[1]

\* lines 90-91; ret is what the caller's operation will return from this
\* result (for Get and Root, lines 82-85)
GetOKLock(p) ==
  /\ pc[p] = "getok_lock"
  /\ Acquire(p)
  /\ res' = [res EXCEPT ![p] = Lookup(store, ToLower(arg[p]))]
  /\ ret' = [ret EXCEPT ![p] =
               IF op[p] = "GetOK" THEN res'[p][1] ELSE GetResult(res'[p])]
  /\ pc' = [pc EXCEPT ![p] = "getok_unlock"]
  /\ UNCHANGED <<regVars, RootName, op, arg, argL, locVars, nops>>

\* lines 92-93: unlock and return; the caller's frame is gone
GetOKUnlock(p) ==
  /\ pc[p] = "getok_unlock"
  /\ Release(p)
  /\ pc' = [pc EXCEPT ![p] = "idle"]
  /\ op' = [op EXCEPT ![p] = "none"]
  /\ arg' = [arg EXCEPT ![p] = <<>>]
  /\ res' = [res EXCEPT ![p] = NoResult]
  /\ ret' = [ret EXCEPT ![p] = 0]
  /\ UNCHANGED <<regVars, RootName, argL, locVars, nops>>

\* ---------------------------------------------------------------- Register
\* the logger the latest Register of this path wrote, -1 if there was none
Replaced(h, path) ==
  IF \E i \in DOMAIN h : h[i][1] = path
  THEN h[CHOOSE i \in DOMAIN h : h[i][1] = path][2]
  ELSE -1

\* faulty variant: the store is replaced by a map with the one entry
PutOnly(m, k, l) == [x \in {k} |-> l]

\* line 99: the map write
Put(m, k, l) == [x \in DOMAIN m \cup {k} |-> IF x = k THEN l ELSE m[x]]

\* lines 98-99
RegisterLock(p) ==
  /\ pc[p] = "reg_lock"
  /\ Acquire(p)
  /\ store' = Put(store, ToLower(arg[p]), argL[p])
  /\ regs' = Append(SelectSeq(regs, LAMBDA r : r[1] # arg[p]),
                     <<arg[p], argL[p], Replaced(regs, arg[p])>>)
  /\ pc' = [pc EXCEPT ![p] = "reg_unlock"]
  /\ UNCHANGED <<phase, cfg, config, aliased, loggers, maps, RootName,
                 op, arg, argL, res, ret, keys, configs, idx, calls, nops>>

RegisterUnlock(p) ==
  /\ pc[p] = "reg_unlock"
  /\ Release(p)
  /\ pc' = [pc EXCEPT ![p] = "idle"]
  /\ op' = [op EXCEPT ![p] = "none"]
  /\ arg' = [arg EXCEPT ![p] = <<>>]
  /\ argL' = [argL EXCEPT ![p] = 0]
  /\ UNCHANGED <<regVars, RootName, res, ret, locVars, nops>>

\* ------------------------------------------------------------------ Reload
\* faulty variant: only the whole key is tried
findExactPath(path, c) == IF IsSet(c, path) THEN Sub(c, path) ELSE NilView

\* faulty variant: the prefixes are tried from the shortest
findShortestMatchingPath(path, c) ==
  LET parts == Split(path)
      pl == Len(parts)
      try[i \in 0..pl] ==
        IF i = pl THEN NilView
        ELSE LET k == Join(SubSeq(parts, 1, i + 1))
             IN IF IsSet(c, k) THEN Sub(c, k) ELSE try[i + 1]
  IN try[0]

\* lines 140-147: the loop from iteration i on, and the return after it
RECURSIVE searchFrom(_, _, _)
searchFrom(parts, i, c) ==
  LET pl == Len(parts)
      mod == pl - i
      \* the body of the loop, as a function of k so that the joined key
      \* is computed once
      body[k \in {Join(SubSeq(parts, 1, mod))}] ==
        IF IsSet(c, k) THEN Sub(c, k) ELSE searchFrom(parts, i + 1, c)
  IN IF i = pl THEN NilView ELSE body[Join(SubSeq(parts, 1, mod))]

findLongestMatchingPath(path, c) ==
  LET loop[parts \in {Split(path)}] == searchFrom(parts, 0, c)
  IN loop[Split(path)]

\* lines 140-146: the keys the loop passes to IsSet, in the order it does
RECURSIVE probesFrom(_, _, _)
probesFrom(parts, i, c) ==
  LET pl == Len(parts)
      mod == pl - i
      k == Join(SubSeq(parts, 1, mod))
  IN IF i = pl THEN <<>>
     ELSE IF IsSet(c, k) THEN <<k>>
     ELSE <<k>> \o probesFrom(parts, i + 1, c)

Probes(path, c) == probesFrom(Split(path), 0, c)

\* line 131: the comma-ok test on the configs map
HasConfig(cs, k) == k \in DOMAIN cs

\* the Logger contract: apply the settings view to the logger
Configure(ls, l, v) == [ls EXCEPT ![l].config = v]

\* lines 110-123: lock, snapshot and sort the keys, make the configs map
ReloadLock(p) ==
  /\ pc[p] = "reload_lock"
  /\ Acquire(p)
  /\ keys' = [keys EXCEPT ![p] = SortStrings(DOMAIN store)]
  /\ configs' = [configs EXCEPT ![p] = EmptyMap]
  /\ calls' = [calls EXCEPT ![p] = <<>>]
  /\ idx' = [idx EXCEPT ![p] = 1]
  /\ pc' = [pc EXCEPT ![p] = IF DOMAIN store = {} THEN "reload_unlock" ELSE "reload_resolve"]
  /\ UNCHANGED <<regVars, RootName, op, arg, argL, res, ret, regs, nops>>

\* faulty variant: one loop that resolves a key and configures at once
AfterResolveFused(p) == "reload_configure"

\* lines 124-129: the first loop runs over all the keys before the second starts
AfterResolve(p) ==
  IF idx[p] < Len(keys[p]) THEN "reload_resolve" ELSE "reload_configure"

\* lines 124-126, one iteration
ReloadResolve(p) ==
  /\ pc[p] = "reload_resolve"
  /\ configs' = [configs EXCEPT ![p] =
        Put(@, keys[p][idx[p]], findLongestMatchingPath(keys[p][idx[p]], config))]
  /\ idx' = [idx EXCEPT ![p] = IF idx[p] < Len(keys[p]) THEN @ + 1 ELSE 1]
  /\ pc' = [pc EXCEPT ![p] = AfterResolve(p)]
  /\ UNCHANGED <<regVars, RootName, lock, op, arg, argL, res, ret, keys, calls, regs, nops>>

\* lines 129-134, one iteration; calling Configure on a nil Logger panics
ReloadConfigure(p) ==
  /\ pc[p] = "reload_configure"
  /\ LET k == keys[p][idx[p]]
         logger == store[k]
         next == IF idx[p] < Len(keys[p]) THEN "reload_configure" ELSE "reload_unlock"
     IN IF HasConfig(configs[p], k) /\ logger = 0
        THEN /\ pc' = [pc EXCEPT ![p] = "reload_panic"]
             /\ UNCHANGED <<loggers, calls, idx>>
        ELSE /\ pc' = [pc EXCEPT ![p] = next]
             /\ idx' = [idx EXCEPT ![p] = @ + 1]
             /\ IF HasConfig(configs[p], k)
                THEN /\ loggers' = Configure(loggers, logger, configs[p][k])
                     /\ calls' = [calls EXCEPT ![p] =
                           Append(@, [key |-> k, logger |-> logger, cfg |-> configs[p][k]])]
                ELSE UNCHANGED <<loggers, calls>>
  /\ UNCHANGED <<phase, cfg, config, aliased, store, maps, RootName, lock,
                 op, arg, argL, res, ret, keys, configs, regs, nops>>

\* line 111: the deferred Unlock, run on return and on panic alike
ReloadUnlock(p) ==
  /\ pc[p] \in {"reload_unlock", "reload_panic"}
  /\ Release(p)
  /\ pc' = [pc EXCEPT ![p] = IF pc[p] = "reload_panic" THEN "panicked" ELSE "idle"]
  /\ op' = [op EXCEPT ![p] = IF pc[p] = "reload_panic" THEN @ ELSE "none"]
  /\ keys' = [keys EXCEPT ![p] = <<>>]
  /\ configs' = [configs EXCEPT ![p] = EmptyMap]
  /\ idx' = [idx EXCEPT ![p] = 1]
  /\ calls' = [calls EXCEPT ![p] = <<>>]
  /\ UNCHANGED <<regVars, RootName, arg, argL, res, ret, regs, nops>>

\* ------------------------------------------------------------- environment
\* RootName and the viper tree are not synchronized with the registry's
\* callers: the program changes them only while no call is running.
Quiet == \A p \in Procs : pc[p] \in {"idle", "panicked"}

\* the program assigns the package variable RootName
SetRootName ==
  /\ phase = "ready"
  /\ Quiet
  /\ \E n \in RootNames \ {RootName} : RootName' = n
  /\ UNCHANGED <<phase, cfg, config, aliased, store, lock, loggers, maps,
                 pc, op, arg, argL, res, ret, locVars, nops>>

\* The backing configuration is rewritten.  A registry whose config is the
\* application's own *viper.Viper sees the new data; one that narrowed to
\* the "logging" section holds a separate Viper made by Sub, which sees the
\* new data only if the section's map was changed in place.
ConfigChange ==
  /\ phase = "ready"
  /\ Quiet
  /\ \E d \in Rewrites \ {cfg.data} :
       /\ cfg' = [cfg EXCEPT !.data = d]
       /\ IF aliased THEN config' = cfg'
          ELSE \/ config' = config
               \/ /\ ~Sub(cfg', S_logging).nil
                  /\ config' = [config EXCEPT !.data = Sub(cfg', S_logging).data]
  /\ UNCHANGED <<phase, RootName, aliased, store, lock, loggers, maps,
                 pc, op, arg, argL, res, ret, locVars, nops>>

\* A holder of a field map writes an entry to it: the caller to the context
\* it gave to NewRegistry (map 0), a logger to its own fields.
FieldNames == {"app", "extra"}

SetField ==
  /\ phase = "ready"
  /\ \E i \in DOMAIN maps, f \in FieldNames, v \in {S_x, S_a} :
       maps' = [maps EXCEPT ![i] = Put(@, f, v)]
  /\ UNCHANGED <<phase, RootName, cfg, config, aliased, store, lock, loggers,
                 pc, op, arg, argL, res, ret, locVars, nops>>

\* ----------------------------------------------------------- specification
Init ==
  /\ phase = "new"
  /\ RootName \in RootNames
  /\ cfg \in {MkView(<<>>, d) : d \in AppConfigs}
  /\ config = NilView
  /\ aliased = FALSE
  /\ store = EmptyMap
  /\ lock = 0
  /\ loggers = [i \in ExtLoggers |-> [ExtLogger EXCEPT !.fields = i]]
  /\ maps = [i \in {0} \cup ExtLoggers |-> IF i = 0 THEN Context ELSE EmptyMap]
  /\ pc = [p \in Procs |-> "idle"]
  /\ op = [p \in Procs |-> "none"]
  /\ arg = [p \in Procs |-> <<>>]
  /\ argL = [p \in Procs |-> 0]
  /\ res = [p \in Procs |-> NoResult]
  /\ ret = [p \in Procs |-> 0]
  /\ keys = [p \in Procs |-> <<>>]
  /\ configs = [p \in Procs |-> EmptyMap]
  /\ idx = [p \in Procs |-> 1]
  /\ calls = [p \in Procs |-> <<>>]
  /\ regs = <<>>
  /\ nops = 0

Call(p) ==
  \/ CallGetOK(p) \/ CallGet(p) \/ CallRoot(p) \/ CallRegister(p) \/ CallReload(p)

Advance(p) ==
  \/ GetOKLock(p) \/ GetOKUnlock(p)
  \/ RegisterLock(p) \/ RegisterUnlock(p)
  \/ ReloadLock(p) \/ ReloadResolve(p) \/ ReloadConfigure(p)
  \/ ReloadUnlock(p)

Next ==
  \/ NewRegistry
  \/ SetRootName
  \/ ConfigChange
  \/ \E p \in Procs : Call(p)
  \/ \E p \in Procs : Advance(p)

Spec == Init /\ [][Next]_vars

\* The Go scheduler runs every goroutine that can run, and a goroutine
\* blocked in Lock gets the mutex once it stays free.
Fairness == \A p \in Procs : WF_vars(Advance(p))

SpecFair == Spec /\ Fairness

\* construction followed by writes to the field maps
NextFields == NewRegistry \/ SetField

SpecFields == Init /\ [][NextFields]_vars

\* ================================================================== claims
\* the dot-separated prefixes of a key, the key itself included
DotPrefixes(s) ==
  {s} \cup {SubSeq(s, 1, i - 1) : i \in {j \in DOMAIN s : s[j] = "."}}

SetPrefixes(key, c) == {q \in DotPrefixes(key) : IsSet(c, q)}

Longest(S) == CHOOSE q \in S : \A r \in S : Len(r) <= Len(q)

\* case-insensitive equality of two strings, letter by letter
CasePairs == {<<"A", "a">>, <<"B", "b">>, <<"R", "r">>}

EqualFold(s, t) ==
  /\ Len(s) = Len(t)
  /\ \A i \in DOMAIN s :
        s[i] = t[i] \/ <<s[i], t[i]>> \in CasePairs \/ <<t[i], s[i]>> \in CasePairs

IsLower(s) == \A i \in DOMAIN s : \A pr \in CasePairs : s[i] # pr[1]

InReload(p) == pc[p] \in {"reload_resolve", "reload_configure",
                          "reload_unlock", "reload_panic"}

InCS(p) == InReload(p) \/ pc[p] \in {"getok_unlock", "reg_unlock"}

Waiting(p) == pc[p] \in {"getok_lock", "reg_lock", "reload_lock"}

\* Reload is about to invoke Configure on the logger of its current key
AtConfigure(p) ==
  /\ pc[p] = "reload_configure"
  /\ store[keys[p][idx[p]]] # 0

\* C1: during Reload, Configure is never invoked for a key none of whose
\* dot-separated prefixes is set in the root configuration.
C1_UnmatchedKeySkipped ==
  \A p \in Procs : \A i \in DOMAIN calls[p] :
     SetPrefixes(calls[p][i].key, config) # {}

\* a Reload has resolved all its keys and invoked no Configure yet
Resolved(p) == pc[p] = "reload_configure" /\ idx[p] = 1

\* a Reload has left its second loop, by its end or by a panic
Configured(p) == pc[p] \in {"reload_unlock", "reload_panic"}

\* C2: every key that Reload resolves, and every Configure it invokes, gets
\* the sub-view at the longest dot-separated prefix of the key that is set
\* (looked at when the first loop, and when the second loop, is over).
C2_LongestPrefix ==
  \A p \in Procs :
     /\ Resolved(p) =>
           \A k \in DOMAIN configs[p] :
              SetPrefixes(k, config) # {} =>
                 configs[p][k] = Sub(config, Longest(SetPrefixes(k, config)))
     /\ Configured(p) =>
           \A i \in DOMAIN calls[p] :
              SetPrefixes(calls[p][i].key, config) # {} =>
                 calls[p][i].cfg = Sub(config, Longest(SetPrefixes(calls[p][i].key, config)))

\* with "a" and "a.b.c" set but not "a.b": "a.b.c.d" got the "a.b.c"
\* subtree and "a.b" got the "a" subtree
C2_Witness ==
  \E p \in Procs : \E i, j \in DOMAIN calls[p] :
     /\ Configured(p)
     /\ ~IsSet(config, Dot(S_a, S_b))
     /\ calls[p][i].key = Dot(S_a, S_b)
     /\ calls[p][i].cfg.path = S_a
     /\ calls[p][j].key = Dot(Dot(S_a, Dot(S_b, S_c)), S_d)
     /\ calls[p][j].cfg.path = Dot(S_a, Dot(S_b, S_c))

\* C3: while a Reload is between its Lock and its Unlock the store does not
\* change: no key is added or removed and no key is rebound.
C3_ReloadKeepsStore ==
  [][(\E p \in Procs : InReload(p)) => store' = store]_vars

C3_Witness ==
  \E p \in Procs :
     pc[p] = "reload_unlock" /\ Len(calls[p]) >= 2 /\ Len(regs) >= 1

\* C4: every key of the store equals its own lowercase form.
C4_KeysLowercase == \A k \in DOMAIN store : IsLower(k)

\* C5: at most one caller is between Lock and Unlock, and it holds the lock;
\* the pair GetOK returns is the store's binding at that moment; and while a
\* caller waits for the lock, the lock is free or held by a caller that is
\* inside its critical section (never by one that returned or panicked).
C5_Serialized ==
  /\ Cardinality({p \in Procs : InCS(p)}) <= 1
  /\ \A p \in Procs : InCS(p) => lock = p
  /\ \A p \in Procs :
        pc[p] = "getok_unlock" =>
           \/ \E k \in DOMAIN store : EqualFold(k, arg[p]) /\ IsLower(k) /\ res[p] = <<store[k], TRUE>>
           \/ /\ \A k \in DOMAIN store : ~(EqualFold(k, arg[p]) /\ IsLower(k))
              /\ res[p] = <<0, FALSE>>
  /\ \A p \in Procs :
        Waiting(p) => lock = 0 \/ \E q \in Procs : lock = q /\ InCS(q)

\* a GetOK that found a logger while another caller waits to replace it
C5_Witness ==
  \E p, q \in Procs :
     /\ pc[p] = "getok_unlock" /\ res[p][2]
     /\ pc[q] = "reg_lock" /\ EqualFold(arg[q], arg[p]) /\ argL[q] # res[p][1]

\* C6 as stated: when Reload invokes Configure it does not hold the lock.
C6_ConfigureUnlocked == \A p \in Procs : AtConfigure(p) => lock # p

\* C6 amended: when Reload invokes Configure it holds the lock, and no
\* caller can take the lock at that moment.
C6_ConfigureLocked ==
  \A p \in Procs : AtConfigure(p) => lock = p /\ \A q \in Procs : ~CanLock(q)

C6_Witness ==
  \E p, q \in Procs : AtConfigure(p) /\ pc[q] = "getok_lock"

\* C7: GetOK(q) returns the logger of the latest Register whose path equals
\* q up to case, and a Register on a path equal up to case to an earlier
\* one replaces the entry without adding a key.
C7_RegisterLookup ==
  [][/\ \A p \in Procs :
          pc'[p] = "getok_unlock" =>
             LET hits == {i \in DOMAIN regs' : EqualFold(regs'[i][1], arg'[p])}
             IN hits # {} =>
                  res'[p] = <<regs'[CHOOSE i \in hits : \A j \in hits : j <= i][2], TRUE>>
     /\ \A p \in Procs :
          (pc[p] = "reg_lock" /\ pc'[p] = "reg_unlock"
           /\ \E i \in DOMAIN regs : EqualFold(regs[i][1], arg[p]))
          => DOMAIN store' = DOMAIN store]_vars

\* after two Registers on the same path, a lookup spelled in another case
\* found the second logger
C7_Witness ==
  \E p \in Procs :
     /\ pc[p] = "getok_unlock"
     /\ \E i \in DOMAIN regs :
          /\ EqualFold(regs[i][1], arg[p]) /\ regs[i][1] # arg[p]
          /\ regs[i][3] \notin {-1, regs[i][2]}
          /\ res[p] = <<regs[i][2], TRUE>>

\* C8: NewRegistry on a view with no keys makes a store with the single key
\* RootName, bound to a logger on the narrowed view; on a view with keys it
\* makes no logger beyond one per key.
C8_RootSynthesized ==
  [][(phase = "new" /\ phase' = "ready") =>
       LET c == IF InConfig(cfg, S_logging) THEN Sub(cfg, S_logging) ELSE cfg
       IN IF AllKeys(c) = {}
          THEN /\ DOMAIN store' = {RootName}
               /\ loggers'[store'[RootName]].config = c
               /\ loggers'[store'[RootName]].name = RootName
               /\ config' = c
          ELSE /\ DOMAIN store' = AllKeys(c)
               /\ Cardinality(DOMAIN loggers' \ DOMAIN loggers) = Cardinality(AllKeys(c))]_vars

\* the root logger was synthesized on the narrowed "logging" view
C8_Witness ==
  /\ phase = "ready" /\ nops = 0
  /\ ~aliased /\ config.path = S_logging
  /\ DOMAIN store = {RootName}
  /\ RootName = S_Root

\* the modules a view declares: the sections that hold a setting
Modules(c) ==
  {Join(SubSeq(lf.keys, 1, Len(lf.keys) - 1)) : lf \in {x \in c.data : Len(x.keys) >= 2}}

\* C9: on a configuration declaring the modules a, a.b and c, NewRegistry
\* makes a store whose keys are exactly a, a.b and c, with distinct loggers.
C9_OneEntryPerModule ==
  [][(phase = "new" /\ phase' = "ready"
      /\ Modules(Sub(cfg, S_logging)) = {S_a, Dot(S_a, S_b), S_c})
     => /\ DOMAIN store' = {S_a, Dot(S_a, S_b), S_c}
        /\ \A j, k \in DOMAIN store' : j # k => store'[j] # store'[k]]_vars

\* C10: no Reload panics and every lookup returns.
C10_NoPanic ==
  \A p \in Procs : pc[p] \notin {"reload_panic", "panicked"}

\* what a lookup of name n finds in store m: the binding of the key that is
\* the lowercase spelling of n, if the store has that key
Bound(m, n) == {k \in DOMAIN m : IsLower(k) /\ EqualFold(k, n)}

\* C11: Root() looks up the value RootName has when it is called and returns
\* what Get of that name returns; assigning RootName leaves the store, its
\* keys and its bindings, as it was.
C11_RootReadsRootName ==
  [][/\ RootName' # RootName => store' = store
     /\ \A p \in Procs :
          (pc[p] = "idle" /\ op'[p] = "Root") => arg'[p] = RootName
     /\ \A p \in Procs :
          (pc'[p] = "getok_unlock" /\ op'[p] = "Root") =>
             /\ arg'[p] = RootName
             /\ IF Bound(store, RootName) = {} THEN ret'[p] = 0
                ELSE \E k \in Bound(store, RootName) : ret'[p] = store[k]]_vars

\* RootName was assigned after construction: the store still has the key
\* made from the old name, and Root() has looked up the new one
C11_Witness ==
  \E p \in Procs :
     /\ DOMAIN store = {S_Root} /\ RootName = S_root
     /\ pc[p] = "getok_unlock" /\ op[p] = "Root" /\ arg[p] = S_root

\* C12 as stated: GetOK returns (logger, true) exactly when the lowercase
\* name is a store key and (nil, false) otherwise; Get returns the same
\* logger, and nil exactly when GetOK reports false; a lookup changes no
\* store entry.
C12_GetNilIffMiss ==
  [][\A p \in Procs :
        /\ pc[p] \in {"getok_lock", "getok_unlock"} /\ pc'[p] # pc[p] => store' = store
        /\ pc'[p] = "getok_unlock" =>
             /\ IF Bound(store, arg'[p]) = {} THEN res'[p] = <<0, FALSE>>
                ELSE \E k \in Bound(store, arg'[p]) : res'[p] = <<store[k], TRUE>>
             /\ op'[p] = "Get" =>
                  /\ res'[p][2] => ret'[p] = res'[p][1]
                  /\ ret'[p] = 0 <=> ~res'[p][2]]_vars

\* C12 amended: as above, but Get returns nil when GetOK reports false and
\* otherwise the stored value, which is nil when a nil Logger was registered.
C12_GetNilIffMissOrNil ==
  [][\A p \in Procs :
        /\ pc[p] \in {"getok_lock", "getok_unlock"} /\ pc'[p] # pc[p] => store' = store
        /\ pc'[p] = "getok_unlock" =>
             /\ IF Bound(store, arg'[p]) = {} THEN res'[p] = <<0, FALSE>>
                ELSE \E k \in Bound(store, arg'[p]) : res'[p] = <<store[k], TRUE>>
             /\ op'[p] = "Get" =>
                  /\ res'[p][2] => ret'[p] = res'[p][1]
                  /\ ret'[p] = 0 <=> (~res'[p][2] \/ res'[p][1] = 0)]_vars

\* Get found the key of a registered nil Logger
C12_Witness ==
  \E p \in Procs :
     pc[p] = "getok_unlock" /\ op[p] = "Get" /\ res[p] = <<0, TRUE>> /\ ret[p] = 0

\* the loggers made by NewRegistry
Made == {l \in DOMAIN loggers : loggers[l].reg}

\* C13: the field map of every logger NewRegistry makes holds every field
\* of the caller's context and a module field, and a write to one field map
\* (a logger's, or the caller's context) changes the fields of no other
\* logger and not the caller's context.
C13_FieldsIndependent ==
  [][/\ (phase = "new" /\ phase' = "ready") =>
          \A l \in {x \in DOMAIN loggers' : loggers'[x].reg} :
             LET fs == maps'[loggers'[l].fields]
             IN /\ DOMAIN maps[0] \cup {"module"} \subseteq DOMAIN fs
                /\ \A f \in DOMAIN maps[0] \ {"module"} : fs[f] = maps[0][f]
     /\ phase = "ready" =>
          Cardinality({l \in Made : maps'[loggers[l].fields] # maps[loggers[l].fields]})
            + (IF maps'[0] # maps[0] THEN 1 ELSE 0) <= 1]_vars

\* one logger's map got a field that another logger's map and the caller's
\* context do not have
C13_Witness ==
  \E l1, l2 \in Made :
     /\ "extra" \in DOMAIN maps[loggers[l1].fields]
     /\ "extra" \notin DOMAIN maps[loggers[l2].fields]
     /\ "extra" \notin DOMAIN maps[0]

\* the keys of a Reload's snapshot
Snapshot(p) == {keys[p][i] : i \in DOMAIN keys[p]}

\* C14: while a Reload resolves it has invoked no Configure, and once it
\* configures, or has invoked a Configure, every key of its snapshot is
\* resolved.
C14_TwoPhase ==
  \A p \in Procs :
     /\ pc[p] = "reload_resolve" => calls[p] = <<>>
     /\ (pc[p] = "reload_configure" \/ calls[p] # <<>>) =>
           DOMAIN configs[p] = Snapshot(p)

\* a Reload over three keys or more that has invoked a Configure and has
\* more to invoke
C14_Witness ==
  \E p \in Procs :
     pc[p] = "reload_configure" /\ Len(calls[p]) >= 1 /\ Len(keys[p]) >= 3

\* the application's configuration as it is now, seen at the place the
\* registry's root view was taken from at construction
Current == IF config.path = <<>> THEN cfg ELSE Sub(cfg, config.path)

\* C15: the view a Reload hands to Configure for a key that has a prefix
\* set in the configuration as it is at that time is the sub-view, at the
\* longest such prefix, of that configuration.
C15_ReloadSeesChange ==
  \A p \in Procs : \A i \in DOMAIN calls[p] :
     SetPrefixes(calls[p][i].key, Current) # {} =>
        calls[p][i].cfg = Sub(Current, Longest(SetPrefixes(calls[p][i].key, Current)))

\* the store keys that come from a Register and from no module of the
\* construction
RegisteredKeys ==
  {k \in DOMAIN store :
     /\ \E i \in DOMAIN regs : IsLower(k) /\ EqualFold(k, regs[i][1])
     /\ \A l \in Made : loggers[l].name # k}

\* C16: what Reload resolves for a key that was registered, and not made at
\* construction, is a function of the key and the root configuration alone:
\* the sub-view at the longest prefix of the key that is set, and nil when
\* no prefix is set.
C16_RegisteredKeyUniform ==
  \A p \in Procs :
     Resolved(p) =>
        \A k \in DOMAIN configs[p] \cap RegisteredKeys :
           configs[p][k] =
              IF SetPrefixes(k, config) = {} THEN NilView
              ELSE Sub(config, Longest(SetPrefixes(k, config)))

\* the registered key "a.b" got the a.b section of a logging view whose
\* construction made the keys a.level, a.b.level and c.name
C16_Witness ==
  \E p \in Procs :
     /\ Resolved(p)
     /\ Dot(S_a, S_b) \in DOMAIN configs[p] \cap RegisteredKeys
     /\ configs[p][Dot(S_a, S_b)].path = Dot(S_logging, Dot(S_a, S_b))
     /\ \E l \in Made : loggers[l].name = Dot(S_a, Dot(S_b, S_level))

\* C17: the Configure invocations of one Reload are in strictly ascending
\* order of their keys (so no key twice), each on a key of the snapshot and
\* on the logger the store binds to it, and the snapshot is the key set of
\* the store.
C17_OncePerKeyInOrder ==
  \A p \in Procs :
     /\ \A i, j \in DOMAIN calls[p] :
           i < j => StrLess(calls[p][i].key, calls[p][j].key)
     /\ \A i \in DOMAIN calls[p] :
           /\ calls[p][i].key \in Snapshot(p)
           /\ calls[p][i].logger = store[calls[p][i].key]
     /\ InReload(p) => Snapshot(p) = DOMAIN store /\ Len(keys[p]) = Cardinality(DOMAIN store)

\* a Reload that configured four loggers or more, a registered one among them
C17_Witness ==
  \E p \in Procs :
     /\ Len(calls[p]) >= 4
     /\ \E i \in DOMAIN calls[p] : calls[p][i].key \in RegisteredKeys

\* C18: when NewRegistry synthesized the root logger (it made one logger,
\* named RootName) and RootName has the value it had then, Root() returns
\* that logger, whatever the case of the letters of RootName.
C18_RootFindsSynthesized ==
  \A p \in Procs : \A l \in Made :
     (pc[p] = "getok_unlock" /\ op[p] = "Root"
      /\ Made = {l} /\ loggers[l].name = RootName)
     => ret[p] = l

\* C19: the write of a Register binds the lowercase path to the given
\* logger, adds no other key, removes none and rebinds none; its two steps
\* leave the config view and every logger as they were and invoke no
\* Configure.
C19_RegisterFrame ==
  [][\A p \in Procs :
        /\ (pc[p] = "reg_lock" /\ pc'[p] = "reg_unlock") =>
              /\ DOMAIN store \subseteq DOMAIN store'
              /\ \A k \in DOMAIN store :
                    ~(IsLower(k) /\ EqualFold(k, arg[p])) => store'[k] = store[k]
              /\ \A k \in DOMAIN store' \ DOMAIN store :
                    IsLower(k) /\ EqualFold(k, arg[p])
              /\ \E k \in DOMAIN store' :
                    IsLower(k) /\ EqualFold(k, arg[p]) /\ store'[k] = argL[p]
              /\ config' = config /\ loggers' = loggers /\ calls' = calls
        /\ (pc[p] = "reg_unlock" /\ pc'[p] = "idle") =>
              /\ store' = store
              /\ config' = config /\ loggers' = loggers /\ calls' = calls]_vars

\* a Register wrote a fourth key beside three made at construction
C19_Witness ==
  \E p \in Procs :
     /\ pc[p] = "reg_unlock" /\ argL[p] # 0
     /\ Cardinality(DOMAIN store) >= 4
     /\ Cardinality(Made) >= 3

\* an operation of caller p is in progress
Running(p) == pc[p] \notin {"idle", "panicked"}

\* the number of dot-separated segments of a key
Segments(k) == 1 + Cardinality({i \in DOMAIN k : k[i] = "."})

\* the prefix search of the key a Reload is about to resolve makes at least
\* one test and at most one per segment, never of the empty prefix, and
\* what it returns is decided by the last test
BoundedSearch ==
  \A p \in Procs :
     pc[p] = "reload_resolve" =>
        LET k == keys[p][idx[p]]
            pr == Probes(k, config)
            last == pr[Len(pr)]
        IN /\ 1 <= Len(pr) /\ Len(pr) <= Segments(k)
           /\ \A i \in DOMAIN pr : pr[i] # <<>> /\ pr[i] \in DotPrefixes(k)
           /\ \A i \in DOMAIN pr : i < Len(pr) => Len(pr[i + 1]) < Len(pr[i])
           /\ findLongestMatchingPath(k, config) =
                 IF IsSet(config, last) THEN Sub(config, last) ELSE NilView

\* C20: under fair scheduling every operation in progress returns, unless it
\* reaches a Configure call that does not return (the call on a nil Logger);
\* the lock is free whenever no operation is in progress; and the prefix
\* search is bounded by the segments of the key.
C20_Terminates ==
  /\ \A p \in Procs : Running(p) ~> (pc[p] = "idle" \/ pc[p] = "reload_panic")
  /\ []((\A p \in Procs : ~Running(p)) => lock = 0)
  /\ []BoundedSearch

\* every caller is inside an operation, one in a Reload that has configured
\* two loggers and the others waiting for the lock
C20_Witness ==
  \E p \in Procs :
     /\ pc[p] = "reload_configure" /\ Len(calls[p]) >= 2
     /\ \A q \in Procs \ {p} : Waiting(q)
====
